---- MODULE Spec2Model ----
(***************************************************************************)
(* Evaluation record store of car-buy-guru-api: the evaluation            *)
(* controllers (src/controllers/evaluations.ts and the older              *)
(* src/controllers/evaluations.js), the CarEvaluation schema methods and   *)
(* the principal resolution they depend on.                                *)
(*                                                                         *)
(* Two generations of the controller live in the repository.  SpecTS runs  *)
(* the TypeScript handlers, SpecJS the JavaScript handlers; both work on   *)
(* the same record shape (a field a generation does not have stays         *)
(* Absent).  SpecCalc applies calculateProgress to arbitrary records.      *)
(***************************************************************************)
EXTENDS Integers, Sequences, FiniteSets, TLC

VARIABLES
    evals,        \* the CarEvaluation collection: id -> document
    nextId,       \* the next _id the collection hands out (never reused)
    resp,         \* the request handled last and its response
    strictQuery,  \* mongoose strictQuery: are filter paths outside the schema dropped
    hist,         \* per id: the status-setting operation completed last
    nreq,         \* number of requests handled so far
    pending,      \* requests between their read of a document and their save
    listed,       \* the body of the last response of GET /evaluations
    now,          \* the calendar year of the server's clock
    auth,         \* the credentials of the last request and what the middleware made of them
    ipMap,        \* rateLimiter.ipMap: client address -> { count, resetTime }
    clock,        \* Date.now(), in units of the rate limiter's window
    sent,         \* what the middleware in front of the handlers did with the last request
    ghost         \* the rate limiter's map had no sweep ever run, and what follows from it

(* the variables of the middleware in front of the routes *)
edge == <<ipMap, clock, sent, ghost>>

vars == <<evals, nextId, resp, strictQuery, hist, nreq, pending, listed, now, auth,
          ipMap, clock, sent, ghost>>

(* the variables no evaluation handler of one atomic step touches *)
others == <<pending, listed, now, auth, edge>>

----------------------------------------------------------------------------
(* Bounds of the model *)

MaxEvals == 1        \* documents ever created
MaxRequests == 3     \* requests in one behaviour
MaxPhotos == 1       \* length of a photos array in an update body
MaxFails == 1        \* failed items in a mechanical inspection body
MaxInFlight == 2     \* requests waiting at an await at the same time
MaxListed == 2       \* documents in the collection a list request runs against
MaxTicks == 1        \* calendar years that pass after the process was started
MaxClock == 2        \* rate limiter windows the clock runs through
CurrentYear == 2025  \* calendar year when the validators were loaded

Absent == "absent"

UserIds == {"u1", "u2"}
Tokens == {"s1"}

(* the token randomBytes(16) mints for the create that makes document i *)
generateSessionId(i) == IF i = 1 THEN "m1" ELSE IF i = 2 THEN "m2" ELSE "m3"

MintedTokens == {generateSessionId(i) : i \in 1..MaxEvals}

(* values of the x-session-id header: a client may send any string, a     *)
(* user's id and a token a create response returned included.  No          *)
(* TypeScript document carries a sessionId, so for the TypeScript handlers *)
(* one token stands for every string                                       *)
HeaderValsTS == Tokens \cup {Absent}
HeaderValsJS == Tokens \cup {"u1"} \cup MintedTokens \cup {Absent}

(* req.user (set by optionalAuth from a valid bearer) or, without it, the  *)
(* x-session-id header; no handler reads the header when req.user is set   *)
PrincipalsTS ==
    [kind : {"user"}, id : UserIds] \cup [kind : {"guest"}, id : HeaderValsTS]
PrincipalsJS ==
    [kind : {"user"}, id : UserIds] \cup [kind : {"guest"}, id : HeaderValsJS]

Statuses ==
    {"draft", "analyzing", "in_progress", "awaiting_carfax", "completed", "archived"}

Mileages == {0, 30000}
Prices == {0, 18000}
BaseValues == {15000, 34999}      \* outcomes of Math.floor(Math.random() * 20000) + 15000
RepairCostsTS == {200, 2199}      \* outcomes of Math.floor(Math.random() * 2000) + 200

Max(a, b) == IF a >= b THEN a ELSE b
Min(a, b) == IF a <= b THEN a ELSE b

(* Math.round of the rational n/d, d > 0: floor(n/d + 1/2) *)
Round(n, d) == (2 * n + d) \div (2 * d)

(* JavaScript truthiness of a number *)
Truthy(n) == n # 0

NoMarket == [present |-> FALSE, estimatedValue |-> 0, dealScore |-> 0]
NoRecs == [present |-> FALSE, suggestedOffer |-> 0, maxOffer |-> 0, walkAwayPrice |-> 0]

(* resp: the operation, the principal and the :id of the request handled  *)
(* last, the field its body names (arg), the status code of the response   *)
(* and the sessionId the response body carries                             *)
(* a VIN string by what the validators look at: its length, whether it    *)
(* has a lower-case letter, whether it has a character outside the VIN     *)
(* alphabet in either case (I, O, Q, punctuation); no vin is length 0      *)
Vin(len, lower, alien) == [len |-> len, lower |-> lower, alien |-> alien]

NoVin == Vin(0, FALSE, FALSE)

(* String.prototype.toUpperCase, the schema's uppercase setter *)
toUpperCase(v) == [v EXCEPT !.lower = FALSE]

NoList == [code |-> 0, page |-> 0, limit |-> 0, data |-> <<>>, total |-> 0, pages |-> 0]

NoBearer == [present |-> FALSE, signed |-> FALSE, expired |-> FALSE, userId |-> Absent]
NoAuth == [route |-> "none", bearer |-> NoBearer, header |-> Absent, user |-> Absent,
           code |-> 0, ran |-> FALSE]

(* the client addresses req.ip takes *)
Addresses == {"a1", "a2"}

NoSent == [by |-> "none", ip |-> Absent, status |-> 0, success |-> Absent, message |-> FALSE]

NoGhost == [unswept |-> <<>>, agree |-> TRUE, reopened |-> FALSE, renewed |-> FALSE,
            readmitted |-> FALSE,
            passed |-> [ip \in Addresses |-> 0],
            refused |-> [ip \in Addresses |-> FALSE]]

NoResp == [op |-> "none", who |-> [kind |-> "guest", id |-> Absent], id |-> 0,
           arg |-> "-", code |-> 0, sessionId |-> Absent]

Response(op, who, id, arg, code, sid) ==
    [op |-> op, who |-> who, id |-> id, arg |-> arg, code |-> code, sessionId |-> sid]

(* hist: what the requests so far did to a document: the principal that    *)
(* created it (for a guest without a header, the guest holding the token   *)
(* getSessionId minted), which of analyze, inspection update and           *)
(* recommendations completed last, and the status named by the last update *)
(* body that named one since then                                          *)
NewHist(creator) == [creator |-> creator, last |-> "none", named |-> Absent]

(* statusAfter with analyze parking the record until a Carfax report *)
statusAfterCarfax(op) ==
    CASE op = "create" -> "draft"
      [] op = "analyze" -> "awaiting_carfax"
      [] op = "inspection" -> "in_progress"
      [] op = "recommendations" -> "completed"

(* the status each operation assigns before it saves *)
statusAfter(op) ==
    CASE op = "create" -> "draft"
      [] op = "analyze" -> "analyzing"
      [] op = "inspection" -> "in_progress"
      [] op = "recommendations" -> "completed"

----------------------------------------------------------------------------
(* CarEvaluationSchema.methods.calculateProgress (TypeScript model) *)

calculateProgress(e) ==
      (IF Truthy(e.year) /\ e.make /\ e.model /\ Truthy(e.mileage) /\ Truthy(e.price)
          THEN 20 ELSE 0)
    + (IF Len(e.photos) > 0 THEN 10 ELSE 0)
    + (IF e.market.present /\ Truthy(e.market.dealScore) THEN 25 ELSE 0)
    + (IF e.general THEN 10 ELSE 0)
    + (IF e.mechanical THEN 10 ELSE 0)
    + (IF e.paperwork THEN 10 ELSE 0)
    + (IF e.recs.present /\ Truthy(e.recs.suggestedOffer) THEN 15 ELSE 0)

(* validateEvaluation: the express-validator chain on POST /evaluations *)
validateEvaluation(body) ==
    /\ body.year >= 1990 /\ body.year <= CurrentYear + 1
    /\ body.mileage >= 0 /\ body.mileage <= 1000000
    /\ body.price >= 0 /\ body.price <= 1000000
    /\ \/ body.vin = NoVin
       \/ body.vin.len = 17 /\ ~body.vin.lower /\ ~body.vin.alien

(* bodies of POST /evaluations: a used car with a price, one that was     *)
(* never driven, one given away, and one with a year the validators reject *)
CreateBodies ==
    {[year |-> 2020, mileage |-> 30000, price |-> 18000, vin |-> NoVin],
     [year |-> 2020, mileage |-> 0,     price |-> 18000, vin |-> NoVin],
     [year |-> 2020, mileage |-> 30000, price |-> 0,     vin |-> NoVin],
     [year |-> 1800, mileage |-> 30000, price |-> 18000, vin |-> NoVin]}

----------------------------------------------------------------------------
(* TypeScript controller: src/controllers/evaluations.ts *)

(* the filter { _id, userId } or { _id, sessionId: header } against a      *)
(* document; sessionId is not a path of the TypeScript schema, so with     *)
(* strictQuery the condition is dropped, and without it an undefined       *)
(* header is sent as null, which matches a document without the field     *)
queryMatches(p, e) ==
    IF p.kind = "user" THEN e.userId = p.id
    ELSE strictQuery \/ e.sessionId = p.id

findOne(p, id) == id \in DOMAIN evals /\ queryMatches(p, evals[id])

Serve(r) ==
    /\ nreq' = nreq + 1
    /\ resp' = r
    /\ UNCHANGED others

Refuse(op, p, id, arg, code) ==
    /\ Serve(Response(op, p, id, arg, code, Absent))
    /\ UNCHANGED <<evals, nextId, strictQuery, hist>>

NotFound(op, p, id, arg) == Refuse(op, p, id, arg, 404)

(* the principal a creating client is afterwards: itself, or the guest     *)
(* holding the token getSessionId minted for it                            *)
getSessionId(p, i) == IF p.id # Absent THEN p.id ELSE generateSessionId(i)

creatorOf(p, i) == [kind |-> p.kind, id |-> getSessionId(p, i)]

(* the document CarEvaluation.create stores for a validated body *)
newDocument(p, body, sessionId, progress) ==
    [userId |-> IF p.kind = "user" THEN p.id ELSE Absent,
     sessionId |-> sessionId,
     year |-> body.year, make |-> TRUE, model |-> TRUE,
     mileage |-> body.mileage, price |-> body.price,
     vin |-> toUpperCase(body.vin),
     photos |-> <<>>,
     market |-> NoMarket,
     general |-> FALSE, mechanical |-> FALSE, paperwork |-> FALSE,
     fails |-> 0,
     recs |-> NoRecs,
     status |-> statusAfter("create"),
     progress |-> progress]

createEvaluation(p, body) ==
    /\ nreq < MaxRequests
    /\ IF ~validateEvaluation(body)
       THEN Refuse("create", p, 0, "-", 400)
       ELSE /\ nextId <= MaxEvals
            /\ LET e == newDocument(p, body, Absent, 20)
              IN  /\ evals' = (nextId :> e) @@ evals
                  /\ hist' = (nextId :> NewHist(creatorOf(p, nextId))) @@ hist
                  /\ Serve(Response("create", p, nextId, "-", 201, Absent))
            /\ nextId' = nextId + 1
            /\ UNCHANGED strictQuery

getEvaluation(p, id) ==
    /\ nreq < MaxRequests
    /\ IF ~findOne(p, id) THEN NotFound("get", p, id, "-")
       ELSE /\ Serve(Response("get", p, id, "-", 200, Absent))
            /\ UNCHANGED <<evals, nextId, strictQuery, hist>>

(* bodies of PUT /evaluations/:id, after the handler has deleted _id,      *)
(* userId, createdAt and updatedAt from them: the field the $set names     *)
UpdateBody(k, photos, status, progress) ==
    [k |-> k, photos |-> photos, status |-> status, progress |-> progress,
     vin |-> NoVin, owner |-> Absent]

(* values of a status field in an update body: valid members of the enum  *)
(* and a string outside it                                                 *)
UpdateStatuses == {"completed", "awaiting_carfax", "archived", "bogus"}

PhotoSeqs == UNION {[1..n -> {"p1"}] : n \in 0..MaxPhotos}

UpdateBodies ==
         {UpdateBody("photos", ph, Absent, 0) : ph \in PhotoSeqs}
    \cup {UpdateBody("status", <<>>, st, 0) : st \in UpdateStatuses}
    \cup {UpdateBody("progress", <<>>, Absent, pr) : pr \in {99}}

(* runValidators on the $set: the enum of status, min and max of progress *)
updateValid(body) ==
    /\ body.k = "status" => body.status \in Statuses
    /\ body.k = "progress" => (body.progress >= 0 /\ body.progress <= 100)
    /\ body.k = "vin" => (body.vin.len = 0 \/ body.vin.len = 17)

(* applySet as a replacement of the document: a field the body does not   *)
(* name falls back to its schema default, status to draft                  *)
applySetOverwrite(e, body) ==
    CASE body.k = "photos" -> [e EXCEPT !.photos = body.photos, !.status = "draft"]
      [] body.k = "status" -> [e EXCEPT !.status = body.status]
      [] body.k = "progress" -> [e EXCEPT !.progress = body.progress, !.status = "draft"]
      [] body.k = "vin" -> [e EXCEPT !.vin = toUpperCase(body.vin), !.status = "draft"]
      [] OTHER -> [e EXCEPT !.status = "draft"]

(* { $set: updates } *)
applySet(e, body) ==
    CASE body.k = "photos" -> [e EXCEPT !.photos = body.photos]
      [] body.k = "status" -> [e EXCEPT !.status = body.status]
      [] body.k = "progress" -> [e EXCEPT !.progress = body.progress]
      [] body.k = "vin" -> [e EXCEPT !.vin = toUpperCase(body.vin)]
      [] OTHER -> e

(* hist after an update, and after one of the three operations *)
noteUpdate(h, body) ==
    IF body.k = "status" THEN [h EXCEPT !.named = body.status] ELSE h

noteOp(h, op) == [h EXCEPT !.last = op, !.named = Absent]

(* evaluation.calculateProgress(); await evaluation.save() *)
saveWithProgress(e) == [e EXCEPT !.progress = calculateProgress(e)]

updateEvaluation(p, id, body) ==
    /\ nreq < MaxRequests
    /\ IF ~findOne(p, id) THEN NotFound("update", p, id, body.k)
       ELSE IF ~updateValid(body)
       THEN Refuse("update", p, id, body.k, 400)
       ELSE /\ evals' = [evals EXCEPT ![id] = saveWithProgress(applySet(evals[id], body))]
            /\ hist' = [hist EXCEPT ![id] = noteUpdate(@, body)]
            /\ Serve(Response("update", p, id, body.k, 200, Absent))
            /\ UNCHANGED <<nextId, strictQuery>>

deleteEvaluation(p, id) ==
    /\ nreq < MaxRequests
    /\ IF ~findOne(p, id) THEN NotFound("delete", p, id, "-")
       ELSE /\ evals' = [i \in DOMAIN evals \ {id} |-> evals[i]]
            /\ hist' = [i \in DOMAIN hist \ {id} |-> hist[i]]
            /\ Serve(Response("delete", p, id, "-", 200, Absent))
            /\ UNCHANGED <<nextId, strictQuery>>

(* Math.round(baseValue + mileageAdjustment + ageAdjustment), with        *)
(* mileageAdjustment = Math.max(0, (150000 - mileage) / 15000) * 1000 and  *)
(* ageAdjustment = Math.max(0, 2024 - year) * -800                         *)
estimatedValueOf(e, base) ==
    Round(15 * (base - 800 * Max(0, 2024 - e.year)) + Max(0, 150000 - e.mileage), 15)

(* priceVsMarket < t, for priceVsMarket = (price - ev) / ev * 100; a       *)
(* division by zero gives Infinity or NaN, below no threshold              *)
pvmBelow(price, ev, t) ==
    IF ev > 0 THEN (price - ev) * 100 < t * ev
    ELSE IF ev < 0 THEN (price - ev) * 100 > t * ev
    ELSE FALSE

dealScoreOf(price, ev) ==
    IF pvmBelow(price, ev, 0 - 20) THEN 90
    ELSE IF pvmBelow(price, ev, 0 - 10) THEN 75
    ELSE IF pvmBelow(price, ev, 0) THEN 65
    ELSE IF pvmBelow(price, ev, 10) THEN 45
    ELSE IF pvmBelow(price, ev, 20) THEN 30
    ELSE 15

analyzeMarket(p, id, base) ==
    /\ nreq < MaxRequests
    /\ IF ~findOne(p, id) THEN NotFound("analyze", p, id, "-")
       ELSE LET e == evals[id]
                ev == estimatedValueOf(e, base)
            IN  IF ev = 0 /\ e.price = 0
                THEN \* priceVsMarket is NaN: the save fails its cast
                     Refuse("analyze", p, id, "-", 400)
                ELSE /\ evals' = [evals EXCEPT ![id] = saveWithProgress(
                            [e EXCEPT !.market = [present |-> TRUE, estimatedValue |-> ev,
                                                  dealScore |-> dealScoreOf(e.price, ev)],
                                      !.status = statusAfter("analyze")])]
                     /\ hist' = [hist EXCEPT ![id] = noteOp(@, "analyze")]
                     /\ Serve(Response("analyze", p, id, "-", 200, Absent))
                     /\ UNCHANGED <<nextId, strictQuery>>

InspectionTypes == {"general", "mechanical", "paperwork"}

(* bodies of PUT /evaluations/:id/inspection: the inspectionType and, for  *)
(* the mechanical section, the number of failed items in results.results   *)
InspectionBodies ==
         [inspectionType : {"general", "paperwork", "bogus"}, fails : {0}]
    \cup [inspectionType : {"mechanical"}, fails : 0..MaxFails]

updateInspection(p, id, body) ==
    /\ nreq < MaxRequests
    /\ IF ~findOne(p, id) THEN NotFound("inspection", p, id, body.inspectionType)
       ELSE LET e == evals[id]
                e1 == CASE body.inspectionType = "general" -> [e EXCEPT !.general = TRUE]
                        [] body.inspectionType = "mechanical" ->
                               [e EXCEPT !.mechanical = TRUE, !.fails = body.fails]
                        [] body.inspectionType = "paperwork" -> [e EXCEPT !.paperwork = TRUE]
                        [] OTHER -> e
            IN  /\ evals' = [evals EXCEPT ![id] =
                                 saveWithProgress([e1 EXCEPT !.status = statusAfter("inspection")])]
                /\ hist' = [hist EXCEPT ![id] = noteOp(@, "inspection")]
                /\ Serve(Response("inspection", p, id, body.inspectionType, 200, Absent))
                /\ UNCHANGED <<nextId, strictQuery>>

(* repairCosts gets one entry, with a random estimatedCost, for each failed *)
(* result of a completed mechanical inspection                             *)
repairItems(e) == IF e.mechanical THEN e.fails ELSE 0

Sum(costs) ==
    IF Len(costs) = 0 THEN 0
    ELSE IF Len(costs) = 1 THEN costs[1]
    ELSE IF Len(costs) = 2 THEN costs[1] + costs[2]
    ELSE costs[1] + costs[2] + costs[3]

recommendationsOf(e, costs) ==
    LET totalRepairCosts == Sum(costs)
        estimatedValue == IF e.market.present /\ Truthy(e.market.estimatedValue)
                          THEN e.market.estimatedValue ELSE e.price
    IN  [present |-> TRUE,
         suggestedOffer |-> Round(9 * estimatedValue - 10 * totalRepairCosts, 10),
         maxOffer |-> estimatedValue - totalRepairCosts,
         walkAwayPrice |-> Round(21 * estimatedValue, 20)]

(* one estimatedCost is drawn for each repair item *)
generateRecommendations(p, id) ==
    /\ nreq < MaxRequests
    /\ IF ~findOne(p, id) THEN NotFound("recommendations", p, id, "-")
       ELSE LET e == evals[id]
            IN  \E costs \in [1..repairItems(e) -> RepairCostsTS] :
                /\ evals' = [evals EXCEPT ![id] = saveWithProgress(
                        [e EXCEPT !.recs = recommendationsOf(e, costs),
                                  !.status = statusAfter("recommendations")])]
                /\ hist' = [hist EXCEPT ![id] = noteOp(@, "recommendations")]
                /\ Serve(Response("recommendations", p, id, "-", 200, Absent))
                /\ UNCHANGED <<nextId, strictQuery>>

----------------------------------------------------------------------------
(* JavaScript controller: src/controllers/evaluations.js, with the        *)
(* JavaScript CarEvaluation model                                          *)

(* CarEvaluationSchema.methods.calculateProgress (JavaScript model);       *)
(* carfax.requested has a default, so it is never undefined                *)
calculateProgressJs(e) ==
      (IF Truthy(e.year) /\ e.make /\ e.model THEN 20 ELSE 0)
    + 20
    + (IF Truthy(e.market.dealScore) THEN 20 ELSE 0)
    + (IF e.general THEN 10 ELSE 0)
    + (IF e.mechanical THEN 10 ELSE 0)
    + (IF e.paperwork THEN 10 ELSE 0)
    + (IF Truthy(e.recs.suggestedOffer) THEN 10 ELSE 0)

saveWithProgressJs(e) == [e EXCEPT !.progress = calculateProgressJs(e)]

(* the two ownership checks every handler makes after findById *)
notAuthorizedJs(p, e) ==
    \/ p.kind = "user" /\ e.userId # Absent /\ e.userId # p.id
    \/ p.kind = "guest" /\ e.sessionId # p.id

(* the guard shared by the handlers: 404 without a document, 403 when an   *)
(* ownership check fails, 0 when the handler goes on                       *)
guardJs(p, id) ==
    IF id \notin DOMAIN evals THEN 404
    ELSE IF notAuthorizedJs(p, evals[id]) THEN 403
    ELSE 0

createEvaluationJs(p, body) ==
    /\ nreq < MaxRequests
    /\ IF ~validateEvaluation(body)
       THEN Refuse("create", p, 0, "-", 400)
       ELSE /\ nextId <= MaxEvals
            /\ LET sessionId == getSessionId(p, nextId)
                   e == newDocument(p, body, sessionId, 0)
              IN  /\ evals' = (nextId :> saveWithProgressJs(e)) @@ evals
                  /\ hist' = (nextId :> NewHist(creatorOf(p, nextId))) @@ hist
                  /\ Serve(Response("create", p, nextId, "-", 201, sessionId))
            /\ nextId' = nextId + 1
            /\ UNCHANGED strictQuery

getEvaluationJs(p, id) ==
    /\ nreq < MaxRequests
    /\ IF guardJs(p, id) # 0 THEN Refuse("get", p, id, "-", guardJs(p, id))
       ELSE /\ Serve(Response("get", p, id, "-", 200, Absent))
            /\ UNCHANGED <<evals, nextId, strictQuery, hist>>

(* bodies that name user or sessionId: findByIdAndUpdate gets req.body as  *)
(* it came                                                                 *)
IdentityBodies ==
    {[UpdateBody("user", <<>>, Absent, 0) EXCEPT !.owner = "u2"],
     [UpdateBody("sessionId", <<>>, Absent, 0) EXCEPT !.owner = "s1"]}

UpdateBodiesJs == UpdateBodies \cup IdentityBodies

(* findByIdAndUpdate(id, req.body): every path of the schema the body      *)
(* names is set                                                            *)
applyBodyJs(e, body) ==
    CASE body.k = "user" -> [e EXCEPT !.userId = body.owner]
      [] body.k = "sessionId" -> [e EXCEPT !.sessionId = body.owner]
      [] OTHER -> applySet(e, body)

updateEvaluationJs(p, id, body) ==
    /\ nreq < MaxRequests
    /\ IF guardJs(p, id) # 0 THEN Refuse("update", p, id, body.k, guardJs(p, id))
       ELSE IF ~updateValid(body) THEN Refuse("update", p, id, body.k, 400)
       ELSE /\ evals' = [evals EXCEPT ![id] = saveWithProgressJs(applyBodyJs(evals[id], body))]
            /\ hist' = [hist EXCEPT ![id] = noteUpdate(@, body)]
            /\ Serve(Response("update", p, id, body.k, 200, Absent))
            /\ UNCHANGED <<nextId, strictQuery>>

deleteEvaluationJs(p, id) ==
    /\ nreq < MaxRequests
    /\ IF guardJs(p, id) # 0 THEN Refuse("delete", p, id, "-", guardJs(p, id))
       ELSE /\ evals' = [i \in DOMAIN evals \ {id} |-> evals[i]]
            /\ hist' = [i \in DOMAIN hist \ {id} |-> hist[i]]
            /\ Serve(Response("delete", p, id, "-", 200, Absent))
            /\ UNCHANGED <<nextId, strictQuery>>

(* outcomes, in percent, of 0.85 + Math.random() * 0.3 *)
MarketFactorsJs == {85, 100, 114}

(* dealScore of the JavaScript analyzeMarket for baseValue = price * f/100 *)
dealScoreJs(e, f) ==
    LET byPrice == IF (100 - f) * 100 < (0 - 10) * f THEN 90
                   ELSE IF (100 - f) * 100 > 10 * f THEN 55
                   ELSE 75
        expectedMileage == (CurrentYear - e.year) * 12000
        byMileage == IF 10 * e.mileage < 8 * expectedMileage THEN byPrice + 10
                     ELSE IF 10 * e.mileage > 12 * expectedMileage THEN byPrice - 15
                     ELSE byPrice
    IN  Max(0, Min(100, byMileage))

analyzeMarketJs(p, id, f) ==
    /\ nreq < MaxRequests
    /\ IF guardJs(p, id) # 0 THEN Refuse("analyze", p, id, "-", guardJs(p, id))
       ELSE LET e == evals[id]
            IN  IF e.price = 0
                THEN \* baseValue is 0 and priceVsMarket NaN: the save fails its cast
                     Refuse("analyze", p, id, "-", 400)
                ELSE /\ evals' = [evals EXCEPT ![id] = saveWithProgressJs(
                            [e EXCEPT !.market = [present |-> TRUE,
                                                  estimatedValue |-> Round(e.price * f, 100),
                                                  dealScore |-> dealScoreJs(e, f)],
                                      !.status = statusAfter("analyze")])]
                     /\ hist' = [hist EXCEPT ![id] = noteOp(@, "analyze")]
                     /\ Serve(Response("analyze", p, id, "-", 200, Absent))
                     /\ UNCHANGED <<nextId, strictQuery>>

(* bodies of the JavaScript PUT /evaluations/:id/inspection: the           *)
(* inspectionType and a data object naming completed and, for the          *)
(* mechanical section, results                                             *)
InspectionBodiesJs ==
         [inspectionType : {"general", "paperwork", "bogus"}, completed : BOOLEAN, fails : {0}]
    \cup [inspectionType : {"mechanical"}, completed : BOOLEAN, fails : 0..MaxFails]

updateInspectionJs(p, id, body) ==
    /\ nreq < MaxRequests
    /\ IF guardJs(p, id) # 0 THEN Refuse("inspection", p, id, body.inspectionType, guardJs(p, id))
       ELSE LET e == evals[id]
                e1 == CASE body.inspectionType = "general" ->
                               [e EXCEPT !.general = body.completed]
                        [] body.inspectionType = "mechanical" ->
                               [e EXCEPT !.mechanical = body.completed, !.fails = body.fails]
                        [] body.inspectionType = "paperwork" ->
                               [e EXCEPT !.paperwork = body.completed]
                        [] OTHER -> e
            IN  /\ evals' = [evals EXCEPT ![id] =
                                 saveWithProgressJs([e1 EXCEPT !.status = statusAfter("inspection")])]
                /\ hist' = [hist EXCEPT ![id] = noteOp(@, "inspection")]
                /\ Serve(Response("inspection", p, id, body.inspectionType, 200, Absent))
                /\ UNCHANGED <<nextId, strictQuery>>

RepairCostsJs == {100, 599}       \* outcomes of Math.floor(Math.random() * 500) + 100

(* amounts are computed in twentieths to keep price * 0.05, * 0.7, * 0.8   *)
(* exact                                                                   *)
recommendationsJs(e, costs) ==
    LET totalRepairCosts == Sum(costs)
        marketAdjustment20 == IF Truthy(e.market.estimatedValue)
                              THEN 20 * (e.price - e.market.estimatedValue)
                              ELSE e.price
        suggestedOffer20 == 20 * e.price - 20 * totalRepairCosts - Max(0, marketAdjustment20)
    IN  [present |-> TRUE,
         suggestedOffer |-> Round(Max(suggestedOffer20, 14 * e.price), 20),
         maxOffer |-> Round(Max(suggestedOffer20 + 10000, 16 * e.price), 20),
         walkAwayPrice |-> e.price]

(* one cost is drawn for each failed result, whether or not the           *)
(* mechanical inspection is marked completed                               *)
generateRecommendationsJs(p, id) ==
    /\ nreq < MaxRequests
    /\ IF guardJs(p, id) # 0 THEN Refuse("recommendations", p, id, "-", guardJs(p, id))
       ELSE LET e == evals[id]
            IN  \E costs \in [1..e.fails -> RepairCostsJs] :
                /\ evals' = [evals EXCEPT ![id] = saveWithProgressJs(
                        [e EXCEPT !.recs = recommendationsJs(e, costs),
                                  !.status = statusAfter("recommendations")])]
                /\ hist' = [hist EXCEPT ![id] = noteOp(@, "recommendations")]
                /\ Serve(Response("recommendations", p, id, "-", 200, Absent))
                /\ UNCHANGED <<nextId, strictQuery>>

----------------------------------------------------------------------------
(* no request in flight, no list served, the clock in the year the process *)
(* started, no credentials seen                                            *)
InitOthers ==
    /\ pending = <<>>
    /\ listed = NoList
    /\ now = CurrentYear
    /\ auth = NoAuth
    /\ ipMap = <<>>
    /\ clock = 0
    /\ sent = NoSent
    /\ ghost = NoGhost

Init ==
    /\ evals = <<>>
    /\ nextId = 1
    /\ resp = NoResp
    /\ strictQuery \in BOOLEAN
    /\ hist = <<>>
    /\ nreq = 0
    /\ InitOthers

NextTS ==
    \E p \in PrincipalsTS :
        \/ \E body \in CreateBodies : createEvaluation(p, body)
        \/ \E id \in 1..MaxEvals :
            \/ getEvaluation(p, id)
            \/ \E body \in UpdateBodies : updateEvaluation(p, id, body)
            \/ deleteEvaluation(p, id)
            \/ \E base \in BaseValues : analyzeMarket(p, id, base)
            \/ \E body \in InspectionBodies : updateInspection(p, id, body)
            \/ generateRecommendations(p, id)

SpecTS == Init /\ [][NextTS]_vars

NextJS ==
    \E p \in PrincipalsJS :
        \/ \E body \in CreateBodies : createEvaluationJs(p, body)
        \/ \E id \in 1..MaxEvals :
            \/ getEvaluationJs(p, id)
            \/ \E body \in UpdateBodiesJs : updateEvaluationJs(p, id, body)
            \/ deleteEvaluationJs(p, id)
            \/ \E f \in MarketFactorsJs : analyzeMarketJs(p, id, f)
            \/ \E body \in InspectionBodiesJs : updateInspectionJs(p, id, body)
            \/ generateRecommendationsJs(p, id)

SpecJS == Init /\ [][NextJS]_vars

----------------------------------------------------------------------------
(* calculateProgress as a function: it is applied to one document drawn    *)
(* from every combination of section contents                              *)

MarketValues ==
    {NoMarket} \cup [present : {TRUE}, estimatedValue : {19800}, dealScore : {0, 45}]

RecsValues ==
    {NoRecs} \cup [present : {TRUE}, suggestedOffer : {0, 16200}, maxOffer : {18000},
                   walkAwayPrice : {18900}]

CalcRecords ==
    [userId : {Absent}, sessionId : {Absent},
     year : {2020}, make : {TRUE}, model : {TRUE},
     mileage : Mileages, price : Prices,
     vin : {NoVin},
     photos : PhotoSeqs,
     market : MarketValues,
     general : BOOLEAN, mechanical : BOOLEAN, paperwork : BOOLEAN,
     fails : {0},
     recs : RecsValues,
     status : {"draft"},
     progress : {0}]

InitCalc ==
    /\ evals \in [{1} -> CalcRecords]
    /\ nextId = 2
    /\ resp = NoResp
    /\ strictQuery = FALSE
    /\ hist = (1 :> NewHist([kind |-> "guest", id |-> Absent]))
    /\ nreq = 0
    /\ InitOthers

(* this.progress = progress; return progress *)
recalculate(id) ==
    /\ id \in DOMAIN evals
    /\ resp.op # "calc"
    /\ evals' = [evals EXCEPT ![id] = saveWithProgress(@)]
    /\ resp' = Response("calc", resp.who, id, "-", evals'[id].progress, Absent)
    /\ UNCHANGED <<nextId, strictQuery, hist, nreq>>
    /\ UNCHANGED others

NextCalc == \E id \in 1..MaxEvals : recalculate(id)

SpecCalc == InitCalc /\ [][NextCalc]_vars

----------------------------------------------------------------------------
(* The TypeScript handlers as the event loop runs them: every await is a   *)
(* point where other requests run.  analyzeMarket, updateInspection and    *)
(* generateRecommendations read the document with findOne and write it     *)
(* back with save(); updateEvaluation commits its $set inside              *)
(* findOneAndUpdate and then saves the recomputed progress.  create, get   *)
(* and delete make one database call.                                      *)

(* requests begun and not yet answered *)
InFlight == Cardinality(DOMAIN pending)

(* a further request may begin *)
Room == nreq + InFlight < MaxRequests /\ InFlight < MaxInFlight

FreeSlot == CHOOSE s \in 1..MaxInFlight : s \notin DOMAIN pending

(* the request waits at its await of save(): before is the stored document *)
(* when the request arrived, read the document the database call returned, *)
(* doc the document in memory after the handler's assignments              *)
Await(op, p, id, arg, before, read, doc) ==
    /\ pending' = (FreeSlot :> [op |-> op, who |-> p, id |-> id, arg |-> arg,
                                before |-> before, read |-> read, doc |-> doc]) @@ pending
    /\ UNCHANGED <<nextId, strictQuery, resp, nreq, listed, now, auth, edge>>

(* the document save() leaves when a matching document exists: the paths   *)
(* the handler changed since its read are $set, the others stay as stored  *)
mergePaths(stored, r) ==
    [f \in DOMAIN r.doc |-> IF r.doc[f] # r.read[f] THEN r.doc[f] ELSE stored[f]]

(* save() as an upsert: a document that is gone is inserted again *)
savePathsUpsert(coll, r) ==
    IF r.id \in DOMAIN coll
    THEN [coll EXCEPT ![r.id] = mergePaths(@, r)]
    ELSE (r.id :> r.doc) @@ coll

(* save() of a document that was read from the collection: an updateOne on *)
(* its _id; without a matching document nothing is written                 *)
savePaths(coll, r) ==
    IF r.id \in DOMAIN coll
    THEN [coll EXCEPT ![r.id] = mergePaths(@, r)]
    ELSE coll

RaceBodies == {[year |-> 2020, mileage |-> 30000, price |-> 18000, vin |-> NoVin]}
RaceUpdates == {UpdateBody("photos", <<"p1">>, Absent, 0),
                UpdateBody("status", <<>>, "bogus", 0)}
RaceInspections == {[inspectionType |-> "mechanical", fails |-> 0]}

raceCreate(p, body) == Room /\ createEvaluation(p, body)

raceGet(p, id) == Room /\ getEvaluation(p, id)

raceDelete(p, id) == Room /\ deleteEvaluation(p, id)

beginUpdate(p, id, body) ==
    /\ Room
    /\ IF ~findOne(p, id) THEN NotFound("update", p, id, body.k)
       ELSE IF ~updateValid(body) THEN Refuse("update", p, id, body.k, 400)
       ELSE LET read == applySet(evals[id], body)
            IN  /\ evals' = [evals EXCEPT ![id] = read]
                /\ hist' = [hist EXCEPT ![id] = noteUpdate(@, body)]
                /\ Await("update", p, id, body.k, evals[id], read, saveWithProgress(read))

beginAnalyze(p, id, base) ==
    /\ Room
    /\ IF ~findOne(p, id) THEN NotFound("analyze", p, id, "-")
       ELSE LET e == evals[id]
                ev == estimatedValueOf(e, base)
            IN  /\ Await("analyze", p, id, "-", e, e, saveWithProgress(
                        [e EXCEPT !.market = [present |-> TRUE, estimatedValue |-> ev,
                                              dealScore |-> dealScoreOf(e.price, ev)],
                                  !.status = statusAfter("analyze")]))
                /\ UNCHANGED <<evals, hist>>

beginInspection(p, id, body) ==
    /\ Room
    /\ IF ~findOne(p, id) THEN NotFound("inspection", p, id, body.inspectionType)
       ELSE LET e == evals[id]
                e1 == CASE body.inspectionType = "general" -> [e EXCEPT !.general = TRUE]
                        [] body.inspectionType = "mechanical" ->
                               [e EXCEPT !.mechanical = TRUE, !.fails = body.fails]
                        [] body.inspectionType = "paperwork" -> [e EXCEPT !.paperwork = TRUE]
                        [] OTHER -> e
            IN  /\ Await("inspection", p, id, body.inspectionType, e, e,
                         saveWithProgress([e1 EXCEPT !.status = statusAfter("inspection")]))
                /\ UNCHANGED <<evals, hist>>

beginRecommendations(p, id) ==
    /\ Room
    /\ IF ~findOne(p, id) THEN NotFound("recommendations", p, id, "-")
       ELSE LET e == evals[id]
            IN  \E costs \in [1..repairItems(e) -> RepairCostsTS] :
                /\ Await("recommendations", p, id, "-", e, e, saveWithProgress(
                        [e EXCEPT !.recs = recommendationsOf(e, costs),
                                  !.status = statusAfter("recommendations")]))
                /\ UNCHANGED <<evals, hist>>

(* the response that ends the request in slot s *)
Answer(s, code) ==
    /\ nreq' = nreq + 1
    /\ resp' = Response(pending[s].op, pending[s].who, pending[s].id, pending[s].arg,
                        code, Absent)
    /\ pending' = [t \in DOMAIN pending \ {s} |-> pending[t]]
    /\ UNCHANGED <<nextId, strictQuery, listed, now, auth, edge>>

(* await evaluation.save() resolves, or rejects with DocumentNotFoundError *)
(* when the document is gone and the error handler answers 500             *)
finishSave(s) ==
    /\ s \in DOMAIN pending
    /\ LET r == pending[s]
           present == r.id \in DOMAIN evals
       IN  /\ evals' = savePaths(evals, r)
           /\ hist' = IF present /\ r.op # "update"
                      THEN [hist EXCEPT ![r.id] = noteOp(@, r.op)]
                      ELSE hist
           /\ Answer(s, IF present THEN 200 ELSE 500)

(* await evaluation.save() rejects because the database call failed: the   *)
(* catch block passes the error on and the error handler answers 500       *)
failSave(s) ==
    /\ s \in DOMAIN pending
    /\ UNCHANGED <<evals, hist>>
    /\ Answer(s, 500)

NextRace ==
    \/ \E p \in PrincipalsTS :
        \/ \E body \in RaceBodies : raceCreate(p, body)
        \/ \E id \in 1..MaxEvals :
            \/ raceGet(p, id)
            \/ raceDelete(p, id)
            \/ \E body \in RaceUpdates : beginUpdate(p, id, body)
            \/ \E base \in BaseValues : beginAnalyze(p, id, base)
            \/ \E body \in RaceInspections : beginInspection(p, id, body)
            \/ beginRecommendations(p, id)
    \/ \E s \in 1..MaxInFlight :
        \/ finishSave(s)
        \/ failSave(s)

SpecRace == Init /\ [][NextRace]_vars

----------------------------------------------------------------------------
(* GET /evaluations, run against collections of up to MaxListed documents  *)
(* that creates by any principals have left                                *)

RECURSIVE SortDesc(_)
(* .sort({ createdAt: -1 }): ids are handed out in creation order *)
SortDesc(S) ==
    IF S = {} THEN <<>>
    ELSE LET m == CHOOSE x \in S : \A y \in S : y <= x
         IN  <<m>> \o SortDesc(S \ {m})

(* .skip(skip).limit(limit) *)
SkipLimit(seq, skip, limit) == SubSeq(seq, skip + 1, Min(Len(seq), skip + limit))

(* Math.ceil(total / limit), limit > 0 *)
CeilDiv(total, limit) == (total + limit - 1) \div limit

(* the page and limit query parameters: 0 stands for a parameter that is   *)
(* absent, "0" or not a number                                             *)
PageParams == 0..MaxListed
LimitParams == 0..MaxListed

ListBody == [year |-> 2020, mileage |-> 30000, price |-> 18000, vin |-> NoVin]

ListResponse(p, code) == Response("list", p, 0, "-", code, Absent)

Listed(code, page, limit, data, total, pages) ==
    [code |-> code, page |-> page, limit |-> limit, data |-> data,
     total |-> total, pages |-> pages]

(* the ids of the summaries of one page, newest first *)
getEvaluations(p, pageParam, limitParam) ==
    /\ nreq < MaxRequests
    /\ nreq' = nreq + 1
    /\ IF p.kind = "guest" /\ p.id = Absent
       THEN /\ resp' = ListResponse(p, 400)
            /\ listed' = Listed(400, pageParam, limitParam, <<>>, 0, 0)
       ELSE LET page == IF pageParam = 0 THEN 1 ELSE pageParam
                limit == IF limitParam = 0 THEN 10 ELSE limitParam
                skip == (page - 1) * limit
                found == {id \in DOMAIN evals : queryMatches(p, evals[id])}
                total == Cardinality(found)
            IN  /\ resp' = ListResponse(p, 200)
                /\ listed' = Listed(200, pageParam, limitParam,
                                    SkipLimit(SortDesc(found), skip, limit),
                                    total, CeilDiv(total, limit))
    /\ UNCHANGED <<evals, nextId, strictQuery, hist, pending, now, auth, edge>>

InitListTS ==
    /\ \E n \in 0..MaxListed : \E c \in [1..n -> PrincipalsTS] :
          /\ evals = [i \in 1..n |-> newDocument(c[i], ListBody, Absent, 20)]
          /\ hist = [i \in 1..n |-> NewHist(creatorOf(c[i], i))]
          /\ nextId = n + 1
    /\ resp = NoResp
    /\ strictQuery \in BOOLEAN
    /\ nreq = 0
    /\ InitOthers

NextListTS ==
    \E p \in PrincipalsTS : \E pageParam \in PageParams : \E limitParam \in LimitParams :
        getEvaluations(p, pageParam, limitParam)

SpecListTS == InitListTS /\ [][NextListTS]_vars

(* the orders .sort({ updatedAt: -1 }) can give the documents found: the   *)
(* document written last comes first, and any of them may be that one      *)
UpdatedOrders(found) ==
    {f \in [1..Cardinality(found) -> found] :
        \A i, j \in 1..Cardinality(found) : i # j => f[i] # f[j]}

(* the JavaScript handler reads neither page nor limit; count is reported  *)
(* as the total                                                            *)
getEvaluationsJs(p, pageParam, limitParam) ==
    /\ nreq < MaxRequests
    /\ nreq' = nreq + 1
    /\ resp' = ListResponse(p, 200)
    /\ IF p.kind = "guest" /\ p.id = Absent
       THEN listed' = Listed(200, pageParam, limitParam, <<>>, 0, 0)
       ELSE LET found == {id \in DOMAIN evals :
                             IF p.kind = "user" THEN evals[id].userId = p.id
                             ELSE evals[id].sessionId = p.id}
            IN  \E order \in UpdatedOrders(found) :
                  listed' = Listed(200, pageParam, limitParam,
                                   SkipLimit(order, 0, 50), Min(Len(order), 50), 0)
    /\ UNCHANGED <<evals, nextId, strictQuery, hist, pending, now, auth, edge>>

InitListJS ==
    /\ \E n \in 0..MaxListed : \E c \in [1..n -> PrincipalsJS] :
          /\ evals = [i \in 1..n |-> saveWithProgressJs(
                          newDocument(c[i], ListBody, getSessionId(c[i], i), 0))]
          /\ hist = [i \in 1..n |-> NewHist(creatorOf(c[i], i))]
          /\ nextId = n + 1
    /\ resp = NoResp
    /\ strictQuery \in BOOLEAN
    /\ nreq = 0
    /\ InitOthers

NextListJS ==
    \E p \in PrincipalsJS : \E pageParam \in PageParams : \E limitParam \in LimitParams :
        getEvaluationsJs(p, pageParam, limitParam)

SpecListJS == InitListJS /\ [][NextListJS]_vars

----------------------------------------------------------------------------
(* Creates and updates that carry a VIN (TypeScript controller)            *)

(* a VIN as the validators see it: its length, whether it has a lower-case *)
(* letter, whether it has a character outside [A-HJ-NPR-Z0-9] in either    *)
(* case (I, O, Q, punctuation)                                             *)
VinValues ==
    {NoVin, Vin(17, FALSE, FALSE), Vin(17, TRUE, FALSE), Vin(17, FALSE, TRUE),
     Vin(16, FALSE, FALSE)}

VinCreateBodies ==
    {[year |-> 2020, mileage |-> 30000, price |-> 18000, vin |-> v] : v \in VinValues}

(* PUT bodies { carDetails.vin: v } *)
VinUpdateBodies ==
    {[UpdateBody("vin", <<>>, Absent, 0) EXCEPT !.vin = v] : v \in VinValues}

NextVin ==
    \E p \in PrincipalsTS :
        \/ \E body \in VinCreateBodies : createEvaluation(p, body)
        \/ \E id \in 1..MaxEvals : \E body \in VinUpdateBodies :
              updateEvaluation(p, id, body)

SpecVin == Init /\ [][NextVin]_vars

----------------------------------------------------------------------------
(* Creates while the calendar year advances.  The validation chain is      *)
(* built when the module is loaded: its bound is CurrentYear + 1, the year  *)
(* of the start of the process, whatever the year is now.                   *)

(* the calendar year advances *)
tick ==
    /\ now < CurrentYear + MaxTicks
    /\ now' = now + 1
    /\ UNCHANGED <<evals, nextId, resp, strictQuery, hist, nreq, pending, listed, auth, edge>>

ClockYears == {1800, 1989, 1990, CurrentYear + 1, CurrentYear + 2}

ClockBodies ==
    {[year |-> y, mileage |-> 30000, price |-> 18000, vin |-> NoVin] : y \in ClockYears}

NextClock ==
    \/ tick
    \/ \E p \in PrincipalsTS : \E body \in ClockBodies : createEvaluation(p, body)

SpecClock == Init /\ [][NextClock]_vars

----------------------------------------------------------------------------
(* Identity resolution: the middleware in front of the handlers            *)

(* a user id a token was issued for before the user was deleted *)
GoneUser == "u9"

(* the Authorization header: none, or Bearer with a token that carries a   *)
(* user id, is or is not signed with JWT_SECRET, and is or is not expired   *)
Bearer(signed, expired, userId) ==
    [present |-> TRUE, signed |-> signed, expired |-> expired, userId |-> userId]

Bearers ==
    {NoBearer, Bearer(TRUE, FALSE, "u1"), Bearer(TRUE, FALSE, "u2"),
     Bearer(FALSE, FALSE, "u1"), Bearer(TRUE, TRUE, "u1"),
     Bearer(TRUE, FALSE, GoneUser)}

(* jwt.verify returns the payload; it throws otherwise *)
jwtVerify(b) == b.signed /\ ~b.expired

(* User.findById(decoded.userId) finds a user *)
findById(userId) == userId \in UserIds

(* req.user.userId after optionalAuth without the check of the user found *)
optionalAuthNoLookup(b) ==
    IF b.present /\ jwtVerify(b) THEN b.userId ELSE Absent

(* req.user.userId after optionalAuth, Absent when req.user is not set *)
optionalAuth(b) ==
    IF b.present /\ jwtVerify(b) /\ findById(b.userId) THEN b.userId ELSE Absent

(* protect calls next() *)
protect(b) == b.present /\ jwtVerify(b) /\ findById(b.userId)

(* the principal the handlers of the evaluation routes work for *)
principalOf(user, header) ==
    IF user # Absent THEN [kind |-> "user", id |-> user]
    ELSE [kind |-> "guest", id |-> header]

Authed(route, b, header, user, code, ran) ==
    [route |-> route, bearer |-> b, header |-> header, user |-> user,
     code |-> code, ran |-> ran]

(* GET /evaluations/:id behind optionalAuth *)
authGetEvaluation(b, header, id) ==
    /\ nreq < MaxRequests
    /\ nreq' = nreq + 1
    /\ LET user == optionalAuth(b)
           p == principalOf(user, header)
           code == IF findOne(p, id) THEN 200 ELSE 404
       IN  /\ resp' = Response("get", p, id, "-", code, Absent)
           /\ auth' = Authed("optional", b, header, user, code, TRUE)
    /\ UNCHANGED <<evals, nextId, strictQuery, hist, pending, listed, now, edge>>

(* GET /auth/me behind protect *)
authGetMe(b) ==
    /\ nreq < MaxRequests
    /\ nreq' = nreq + 1
    /\ IF protect(b)
       THEN auth' = Authed("protect", b, Absent, b.userId, 200, TRUE)
       ELSE auth' = Authed("protect", b, Absent, Absent, 401, FALSE)
    /\ UNCHANGED <<evals, nextId, resp, strictQuery, hist, pending, listed, now, edge>>

NextAuth ==
    \E b \in Bearers :
        \/ \E header \in HeaderValsTS : \E id \in 1..MaxListed :
              authGetEvaluation(b, header, id)
        \/ authGetMe(b)

SpecAuth == InitListTS /\ [][NextAuth]_vars

----------------------------------------------------------------------------
(* The rate limiter in front of every route (app.use(rateLimiter)), and    *)
(* its periodic sweep.  A middleware function runs to its end without       *)
(* yielding, so a request is one step.  The clock does not run backwards.   *)

windowMs == 1        \* 15 * 60 * 1000 ms: the unit of clock
maxRequests == 100   \* max requests per window

(* now > ipData.resetTime *)
expired(t, ipData) == t > ipData.resetTime

overLimitOffByOne(ipData) == ipData.count > maxRequests

(* ipData.count >= maxRequests *)
overLimit(ipData) == ipData.count >= maxRequests

(* the request opens a window: no entry, or the entry's window is over *)
opens(map, ip, t) == ip \notin DOMAIN map \/ expired(t, map[ip])

(* the request is passed on with next() *)
passes(map, ip, t) == opens(map, ip, t) \/ ~overLimit(map[ip])

NewWindow(t) == [count |-> 1, resetTime |-> t + windowMs]

countRequestExtending(map, ip, t) ==
    IF opens(map, ip, t) THEN (ip :> NewWindow(t)) @@ map
    ELSE IF overLimit(map[ip]) THEN [map EXCEPT ![ip].resetTime = t + windowMs]
    ELSE [map EXCEPT ![ip].count = @ + 1]

(* the map after a request of ip at time t *)
countRequest(map, ip, t) ==
    IF opens(map, ip, t) THEN (ip :> NewWindow(t)) @@ map
    ELSE IF overLimit(map[ip]) THEN map
    ELSE [map EXCEPT ![ip].count = @ + 1]

(* next() *)
PassedOn(ip) ==
    [by |-> "rateLimiter", ip |-> ip, status |-> 0, success |-> Absent, message |-> FALSE]

(* res.status(429).json({ success: false, error, retryAfter }) *)
TooMany(ip) ==
    [by |-> "rateLimiter", ip |-> ip, status |-> 429, success |-> "false", message |-> FALSE]

(* the same request counted in the map that is never swept; whether the    *)
(* two decisions agree; whether the request found its entry swept away;    *)
(* whether it came after the window of its address was over; whether it    *)
(* is passed on after a request of its address was answered 429; how many  *)
(* requests of the address were passed on since the request that opened    *)
(* its window; whether the address was answered 429 since then             *)
ghostAfter(g, map, ip, t) ==
    [unswept |-> countRequest(g.unswept, ip, t),
     agree |-> passes(map, ip, t) = passes(g.unswept, ip, t),
     reopened |-> ip \notin DOMAIN map /\ ip \in DOMAIN g.unswept,
     renewed |-> ip \in DOMAIN g.unswept /\ expired(t, g.unswept[ip]),
     readmitted |-> passes(map, ip, t) /\ g.refused[ip],
     refused |-> [g.refused EXCEPT ![ip] = ~passes(map, ip, t)],
     passed |-> [g.passed EXCEPT ![ip] =
                    IF opens(map, ip, t) THEN 1
                    ELSE IF passes(map, ip, t) THEN @ + 1 ELSE @]]

rateLimiter(ip) ==
    /\ ipMap' = countRequest(ipMap, ip, clock)
    /\ sent' = IF passes(ipMap, ip, clock) THEN PassedOn(ip) ELSE TooMany(ip)
    /\ ghost' = ghostAfter(ghost, ipMap, ip, clock)
    /\ UNCHANGED <<evals, nextId, resp, strictQuery, hist, nreq, pending, listed, now,
                   auth, clock>>

staleEager(t, ipData) == t >= ipData.resetTime

(* the sweep's test: now > data.resetTime *)
stale(t, ipData) == t > ipData.resetTime

(* the setInterval callback: delete the entries whose window is over *)
sweep ==
    /\ ipMap' = [ip \in {i \in DOMAIN ipMap : ~stale(clock, ipMap[i])} |-> ipMap[ip]]
    /\ ipMap' # ipMap
    /\ UNCHANGED <<evals, nextId, resp, strictQuery, hist, nreq, pending, listed, now,
                   auth, clock, sent, ghost>>

(* time passes *)
advance ==
    /\ clock < MaxClock
    /\ clock' = clock + 1
    /\ UNCHANGED <<evals, nextId, resp, strictQuery, hist, nreq, pending, listed, now,
                   auth, ipMap, sent, ghost>>

NextLimiter ==
    \/ \E ip \in Addresses : rateLimiter(ip)
    \/ sweep
    \/ advance

(* no request has arrived; the limiter never looks at the collection, so   *)
(* one setting of the query option is enough                                *)
InitLimiter == Init /\ ~strictQuery

SpecLimiter == InitLimiter /\ [][NextLimiter]_vars

----------------------------------------------------------------------------
(* The failure responses of the middleware and handlers behind the rate    *)
(* limiter.  Of a JSON body the model keeps the success field and whether   *)
(* there is a message field.                                                *)

Failure(by, status, success, message) ==
    [by |-> by, ip |-> sent.ip, status |-> status, success |-> success, message |-> message]

(* the rate limiter called next() for the request at hand *)
Reached == sent.by = "rateLimiter" /\ sent.status = 0

Respond(failure) ==
    /\ sent' = failure
    /\ UNCHANGED <<evals, nextId, resp, strictQuery, hist, nreq, pending, listed, now,
                   auth, ipMap, clock, ghost>>

(* protect: { success: false, error } for a request it does not let through *)
protectDenies(b) ==
    /\ Reached
    /\ ~protect(b)
    /\ Respond(Failure("protect", 401, "false", FALSE))

(* authorize: { success: false, error }, 401 without req.user, 403 for a    *)
(* role that is not listed                                                  *)
authorizeDenies(status) ==
    /\ Reached
    /\ Respond(Failure("authorize", status, "false", FALSE))

(* createEvaluation on validation errors:                                   *)
(* { success: false, message: 'Validation failed', errors }                 *)
validationFails(body) ==
    /\ Reached
    /\ ~validateEvaluation(body)
    /\ Respond(Failure("createEvaluation", 400, "false", TRUE))

(* the handlers when findOne finds nothing:                                 *)
(* { success: false, message: 'Evaluation not found' }                      *)
evaluationNotFound ==
    /\ Reached
    /\ Respond(Failure("getEvaluation", 404, "false", TRUE))

(* app.use('*'): { error: 'Route not found', path, method } *)
routeNotFound ==
    /\ Reached
    /\ Respond(Failure("app", 404, Absent, FALSE))

ErrorNames ==
    {"CastError", "DuplicateKey", "ValidationError", "JsonWebTokenError",
     "TokenExpiredError", "Error"}

(* error.statusCode; err.statusCode is not set by any code of the service  *)
statusCode(err) ==
    CASE err = "CastError" -> 404
      [] err \in {"DuplicateKey", "ValidationError"} -> 400
      [] err \in {"JsonWebTokenError", "TokenExpiredError"} -> 401
      [] OTHER -> 500

(* errorHandler: { success: false, message } *)
errorHandler(err) ==
    /\ Reached
    /\ Respond(Failure("errorHandler", statusCode(err), "false", TRUE))

NextEnvelope ==
    \/ \E ip \in Addresses : rateLimiter(ip)
    \/ \E b \in Bearers : protectDenies(b)
    \/ \E status \in {401, 403} : authorizeDenies(status)
    \/ \E body \in CreateBodies : validationFails(body)
    \/ evaluationNotFound
    \/ routeNotFound
    \/ \E err \in ErrorNames : errorHandler(err)

SpecEnvelope == InitLimiter /\ [][NextEnvelope]_vars

----------------------------------------------------------------------------
(* Recommendations over the range of carDetails the validator accepts      *)
(* (TypeScript controller)                                                  *)

OfferBodies ==
    [year : {1990, 2020}, mileage : Mileages, price : Prices, vin : {NoVin}]

NextOffer ==
    \E p \in [kind : {"user"}, id : {"u1"}] :
        \/ \E body \in OfferBodies : createEvaluation(p, body)
        \/ \E id \in 1..MaxEvals :
            \/ \E base \in BaseValues : analyzeMarket(p, id, base)
            \/ \E body \in [inspectionType : {"mechanical"}, fails : 0..MaxFails] :
                  updateInspection(p, id, body)
            \/ generateRecommendations(p, id)

SpecOffer == Init /\ [][NextOffer]_vars

----------------------------------------------------------------------------
(* The status workflow of the TypeScript controller: every route on a      *)
(* record, called by its owner and by another registered user.  Status is  *)
(* written by the handlers alone, whoever the principal is.                *)

NextStatus ==
    \E p \in [kind : {"user"}, id : UserIds] :
        \/ \E body \in CreateBodies : createEvaluation(p, body)
        \/ \E id \in 1..MaxEvals :
            \/ getEvaluation(p, id)
            \/ \E body \in UpdateBodies : updateEvaluation(p, id, body)
            \/ deleteEvaluation(p, id)
            \/ \E base \in BaseValues : analyzeMarket(p, id, base)
            \/ \E body \in InspectionBodies : updateInspection(p, id, body)
            \/ generateRecommendations(p, id)

SpecStatus == Init /\ [][NextStatus]_vars

----------------------------------------------------------------------------
(* Properties *)

RecordOps == {"get", "update", "delete", "analyze", "inspection", "recommendations"}

(* a request was handled in this step *)
Handled == nreq' = nreq + 1

(* the request handled in this step is one of the six operations on a      *)
(* document that exists                                                    *)
OnExisting == Handled /\ resp'.op \in RecordOps /\ resp'.id \in DOMAIN evals

(* C1: a guest presenting session id S1 is allowed an operation on a       *)
(* record only if the record's sessionId is S1; on a record of another     *)
(* session and on a record owned by a registered user the operation fails  *)
(* with NotFound and changes nothing.                                      *)
C1_GuestRule ==
    [][(/\ OnExisting
        /\ resp'.who.kind = "guest"
        /\ resp'.who.id # Absent
        /\ \/ evals[resp'.id].sessionId # resp'.who.id
           \/ evals[resp'.id].userId # Absent)
       => (resp'.code = 404 /\ evals' = evals)]_vars

(* C2: an authenticated user is allowed an operation on a record if and    *)
(* only if the record's owner is that user; on any other record the        *)
(* operation fails with an ownership-denied error (403 or 404) and changes *)
(* nothing.                                                                *)
C2_UserRule ==
    [][(OnExisting /\ resp'.who.kind = "user")
       => IF evals[resp'.id].userId = resp'.who.id
          THEN resp'.code \notin {403, 404}
          ELSE resp'.code \in {403, 404} /\ evals' = evals]_vars

(* C3: create records the principal on the record (owner for a user, the   *)
(* supplied or the minted and returned session id for a guest), and a get  *)
(* of the record by the principal that created it succeeds.                *)
C3_CreateGetRoundTrip ==
    /\ (resp.op = "create" /\ resp.code = 201) =>
          LET e == evals[resp.id]
          IN  /\ resp.who.kind = "user" => e.userId = resp.who.id
              /\ (resp.who.kind = "guest" /\ resp.who.id # Absent) =>
                     e.sessionId = resp.who.id
              /\ (resp.who.kind = "guest" /\ resp.who.id = Absent) =>
                     (resp.sessionId # Absent /\ e.sessionId = resp.sessionId)
    /\ (resp.op = "get" /\ resp.id \in DOMAIN evals /\ hist[resp.id].creator = resp.who)
          => resp.code = 200

(* the weighted sum of the seven section predicates as the progress table  *)
(* states them: a section counts when its data is present                  *)
sectionProgress(e) ==
      20
    + (IF Len(e.photos) > 0 THEN 10 ELSE 0)
    + (IF e.market.present THEN 25 ELSE 0)
    + (IF e.general THEN 10 ELSE 0)
    + (IF e.mechanical THEN 10 ELSE 0)
    + (IF e.paperwork THEN 10 ELSE 0)
    + (IF e.recs.present THEN 15 ELSE 0)

(* C4: in every reachable state the stored progress of every record is the *)
(* weighted sum of the seven section predicates of its current contents.   *)
C4_ProgressDerived ==
    \A id \in DOMAIN evals : evals[id].progress = sectionProgress(evals[id])

IsPrefix(s, t) == Len(s) <= Len(t) /\ \A i \in 1..Len(s) : s[i] = t[i]

(* the request handled in this step succeeded and only added data: analyze, *)
(* an inspection update, recommendations, or an update attaching a photo   *)
AddsData ==
    /\ OnExisting
    /\ resp'.code = 200
    /\ \/ resp'.op \in {"analyze", "inspection", "recommendations"}
       \/ /\ resp'.op = "update"
          /\ resp'.arg = "photos"
          /\ IsPrefix(evals[resp'.id].photos, evals'[resp'.id].photos)
          /\ Len(evals'[resp'.id].photos) > Len(evals[resp'.id].photos)

(* C5: an operation that only adds data to a record never lowers its       *)
(* progress.                                                               *)
C5_ProgressMonotonic ==
    [][AddsData => evals'[resp'.id].progress >= evals[resp'.id].progress]_vars

OnlyCarDetails(e) ==
    /\ Len(e.photos) = 0
    /\ ~e.market.present
    /\ ~e.general /\ ~e.mechanical /\ ~e.paperwork
    /\ ~e.recs.present

(* C6: a record with valid carDetails and no other section has progress    *)
(* 20, as stored and as calculateProgress computes it.                     *)
C6_OnlyCarDetailsIs20 ==
    \A id \in DOMAIN evals :
        OnlyCarDetails(evals[id]) =>
            (evals[id].progress = 20 /\ calculateProgress(evals[id]) = 20)

AllSeven(e) ==
    /\ Len(e.photos) > 0
    /\ e.market.present
    /\ e.general /\ e.mechanical /\ e.paperwork
    /\ e.recs.present

(* C7: calculateProgress returns 100 exactly for the records in which all  *)
(* seven section predicates hold, whatever values the fields have.         *)
C7_AllSevenIs100 ==
    resp.op = "calc" => (AllSeven(evals[resp.id]) <=> resp.code = 100)

MintedGuest(id) == [kind |-> "guest", id |-> generateSessionId(id)]

(* C8: a guest without a session header creates a record with non-zero     *)
(* mileage and price: the record carries a minted sessionId, status draft  *)
(* and progress 20; analyze by that guest session next gives analyzing and *)
(* 45; a mechanical inspection update by it next gives in_progress and 55. *)
C8_WorkflowScenario ==
    [][/\ (/\ Handled /\ resp'.op = "create" /\ resp'.code = 201
           /\ resp'.who = [kind |-> "guest", id |-> Absent]
           /\ evals'[resp'.id].mileage # 0 /\ evals'[resp'.id].price # 0)
          => (/\ evals'[resp'.id].sessionId # Absent
              /\ evals'[resp'.id].status = "draft"
              /\ evals'[resp'.id].progress = 20)
       /\ (/\ Handled /\ resp.op = "create" /\ resp.code = 201
           /\ resp.who = [kind |-> "guest", id |-> Absent]
           /\ evals[resp.id].mileage # 0 /\ evals[resp.id].price # 0
           /\ resp'.op = "analyze" /\ resp'.id = resp.id
           /\ resp'.who = MintedGuest(resp.id))
          => (/\ resp'.code = 200
              /\ evals'[resp.id].status = "analyzing"
              /\ evals'[resp.id].progress = 45)
       /\ (/\ Handled /\ resp.op = "analyze" /\ resp.code = 200
           /\ resp.who = MintedGuest(resp.id)
           /\ hist[resp.id].creator = MintedGuest(resp.id)
           /\ evals[resp.id].progress = 45
           /\ resp'.op = "inspection" /\ resp'.arg = "mechanical" /\ resp'.id = resp.id
           /\ resp'.who = MintedGuest(resp.id))
          => (/\ resp'.code = 200
              /\ evals'[resp.id].status = "in_progress"
              /\ evals'[resp.id].progress = 55)]_vars

(* the status the three status-setting operations leave, draft before any  *)
statusByLastOp(h) ==
    CASE h.last = "none" -> "draft"
      [] h.last = "analyze" -> "analyzing"
      [] h.last = "inspection" -> "in_progress"
      [] h.last = "recommendations" -> "completed"

(* C9, as stated: the status of every record is draft before any analyze,  *)
(* inspection update or recommendations completed on it, and afterwards    *)
(* the status of the one that completed last.                              *)
C9_StatusByLastOp ==
    \A id \in DOMAIN evals : evals[id].status = statusByLastOp(hist[id])

(* C9, amended: an update whose body names a status counts as a            *)
(* status-setting operation that sets the named status; the status of      *)
(* every record is the one set by the status-setting operation completed   *)
(* last, and draft before any.                                             *)
C9_StatusByLastSetter ==
    \A id \in DOMAIN evals :
        evals[id].status =
            IF hist[id].named # Absent THEN hist[id].named ELSE statusByLastOp(hist[id])

(* analyze completed on a record that had recommendations: its status is   *)
(* back to analyzing                                                       *)
C9_Witness ==
    \E id \in DOMAIN evals :
        /\ hist[id].last = "analyze"
        /\ hist[id].named = Absent
        /\ evals[id].recs.present
        /\ evals[id].status = "analyzing"

ReservedStatuses == {"awaiting_carfax", "archived"}

Owns(p, e) ==
    IF p.kind = "user" THEN e.userId = p.id
    ELSE p.id # Absent /\ e.userId = Absent /\ e.sessionId = p.id

(* C11: each of the six operations on a record answers a principal that    *)
(* does not own the record exactly as it answers for an id no record has,  *)
(* which is with NotFound (404).                                           *)
C11_ExistenceNotLeaked ==
    [][(OnExisting /\ ~Owns(resp'.who, evals[resp'.id])) => resp'.code = 404]_vars

(* C12: an update accepted from the owner of a record leaves the record    *)
(* under its id with the owner and the sessionId it had.                   *)
C12_IdentityKept ==
    [][(/\ OnExisting /\ resp'.op = "update" /\ resp'.code = 200
        /\ Owns(resp'.who, evals[resp'.id]))
       => (/\ resp'.id \in DOMAIN evals'
           /\ evals'[resp'.id].userId = evals[resp'.id].userId
           /\ evals'[resp'.id].sessionId = evals[resp'.id].sessionId)]_vars

(* the requests answered in this step after waiting at an await *)
Resumed == DOMAIN pending \ DOMAIN pending'

(* C13: a request that ends in a failure response (400 and above) leaves   *)
(* the collection as it was: the step that answers writes nothing, and no  *)
(* earlier step of the request has committed a change to the record.       *)
C13_NoPartialEffects ==
    [][(Handled /\ resp'.code >= 400)
       => (/\ evals' = evals
           /\ \A s \in Resumed : pending[s].read = pending[s].before)]_vars

(* ids that had a document which was deleted *)
DeletedIds == {id \in 1..MaxEvals : id < nextId /\ id \notin DOMAIN evals}

C15_GuestNoSessionEmptyPage ==
    (resp.op = "list" /\ resp.who.kind = "guest" /\ resp.who.id = Absent)
        => (resp.code = 200 /\ listed.data = <<>>)

(* the principal's records, newest first *)
OwnDesc(p) == SortDesc({id \in DOMAIN evals : Owns(p, evals[id])})

(* C16: a successful list request returns only records of the principal,   *)
(* newest first, and reports their number as the total; for a limit of at  *)
(* least 1 and a page of at least 1 it returns exactly the page-th run of   *)
(* limit of the principal's records in creation order descending, so that  *)
(* the pages 1..ceil(total/limit) together hold each record once.           *)
C16_ListPages ==
    (resp.op = "list" /\ resp.code = 200)
        => (/\ \A i \in 1..Len(listed.data) :
                 /\ listed.data[i] \in DOMAIN evals
                 /\ Owns(resp.who, evals[listed.data[i]])
            /\ \A i, j \in 1..Len(listed.data) :
                 i < j => listed.data[i] > listed.data[j]
            /\ listed.total = Len(OwnDesc(resp.who))
            /\ (listed.limit >= 1 /\ listed.page >= 1)
                 => listed.data = SkipLimit(OwnDesc(resp.who),
                                            (listed.page - 1) * listed.limit,
                                            listed.limit))

(* a VIN of exactly 17 upper-case characters of the VIN alphabet *)
WellFormedVin(v) == v.len = 17 /\ ~v.lower /\ ~v.alien

(* C17: in every reachable state the vin of every record is absent or has  *)
(* exactly 17 characters, all upper-case and of the VIN alphabet (no I, O,  *)
(* Q), whatever creates and updates were applied.                          *)
C17_VinInvariant ==
    \A id \in DOMAIN evals : evals[id].vin = NoVin \/ WellFormedVin(evals[id].vin)

(* C18: a create request with otherwise valid carDetails is accepted if    *)
(* and only if 1990 <= year <= Y + 1, Y being the calendar year when the    *)
(* request is validated, also after the year has advanced since the start  *)
(* of the process.                                                         *)
C18_YearFollowsClock ==
    [][\A p \in PrincipalsTS : \A body \in ClockBodies :
          createEvaluation(p, body)
              => (resp'.code = 201 <=> (body.year >= 1990 /\ body.year <= now + 1))]_vars

(* a bearer credential that is present but invalid: bad signature, expired *)
(* or naming a user that no longer exists                                  *)
InvalidBearer(b) == b.present /\ (~b.signed \/ b.expired \/ b.userId \notin UserIds)

(* C19 as stated: a request with a present but invalid bearer credential   *)
(* is, behind optionalAuth, never resolved to a User and handled as a      *)
(* Guest with no session; behind protect it is answered 401 and the        *)
(* handler is not run.                                                     *)
C19_FailsClosedNoSession ==
    (auth.route # "none" /\ InvalidBearer(auth.bearer))
        => IF auth.route = "optional"
           THEN /\ auth.user = Absent
                /\ resp.who = [kind |-> "guest", id |-> Absent]
           ELSE auth.code = 401 /\ ~auth.ran

(* C19 amended: a request with a present but invalid bearer credential is, *)
(* behind optionalAuth, never resolved to a User and handled as the Guest  *)
(* its x-session-id header names (a Guest with no session only when it     *)
(* sends no such header); behind protect it is answered 401 and the        *)
(* handler is not run.                                                     *)
C19_FailsClosed ==
    (auth.route # "none" /\ InvalidBearer(auth.bearer))
        => IF auth.route = "optional"
           THEN /\ auth.user = Absent
                /\ auth.ran
                /\ resp.who = [kind |-> "guest", id |-> auth.header]
           ELSE auth.code = 401 /\ ~auth.ran

C19_Witness ==
    /\ auth.route = "optional"
    /\ InvalidBearer(auth.bearer)
    /\ auth.bearer.signed /\ ~auth.bearer.expired
    /\ auth.header # Absent
    /\ resp.op = "get" /\ resp.code = 200

(* the fields of a record outside its inspection sections *)
OutsideInspection(e) ==
    <<e.year, e.make, e.model, e.mileage, e.price, e.vin, e.photos, e.market, e.recs,
      e.userId, e.sessionId>>

(* C20: a successful inspection update naming section T of general,        *)
(* mechanical, paperwork leaves T completed whatever the body carries      *)
(* (completed: false included), and leaves the other two sections,         *)
(* carDetails, photos, marketAnalysis, recommendations, owner and          *)
(* sessionId as they were.                                                 *)
C20_InspectionFrame ==
    [][(/\ Handled
        /\ resp'.op = "inspection"
        /\ resp'.code = 200
        /\ resp'.arg \in InspectionTypes)
          => LET old == evals[resp'.id]
                 new == evals'[resp'.id]
                 T == resp'.arg
             IN  /\ new.general = (IF T = "general" THEN TRUE ELSE old.general)
                 /\ new.mechanical = (IF T = "mechanical" THEN TRUE ELSE old.mechanical)
                 /\ new.paperwork = (IF T = "paperwork" THEN TRUE ELSE old.paperwork)
                 /\ T # "mechanical" => new.fails = old.fails
                 /\ OutsideInspection(new) = OutsideInspection(old)]_vars

(* C21: for every record and every operation handled on it, the photos     *)
(* sequence before the operation is a prefix of the photos sequence after  *)
(* it: no operation removes, reorders or replaces a photo.                  *)
C21_PhotosAppendOnly ==
    [][\A id \in DOMAIN evals \cap DOMAIN evals' :
          IsPrefix(evals[id].photos, evals'[id].photos)]_vars

(* C23: the stored count of every entry is between 1 and 100; at most 100  *)
(* requests of an address are passed on in the window that the request     *)
(* which created or reset its entry opened; and every further request of   *)
(* the address inside the window is answered 429, not passed on.           *)
C23_RateLimitCap ==
    [][/\ \A ip \in DOMAIN ipMap' :
            ipMap'[ip].count >= 1 /\ ipMap'[ip].count <= maxRequests
       /\ \A ip \in Addresses :
            /\ ghost'.passed[ip] <= maxRequests
            /\ (/\ rateLimiter(ip)
                /\ ip \in DOMAIN ipMap
                /\ clock <= ipMap[ip].resetTime
                /\ ghost.passed[ip] >= maxRequests)
                  => (sent'.status = 429 /\ ghost'.passed[ip] = ghost.passed[ip])]_vars

(* the 101st request of an address inside one window was answered 429     *)
C23_Witness ==
    /\ sent.by = "rateLimiter" /\ sent.status = 429
    /\ ghost.passed[sent.ip] = maxRequests
    /\ \E other \in Addresses \ {sent.ip} : other \in DOMAIN ipMap

(* C29: the limiter decides every request as it would had no sweep ever     *)
(* run, and a sweep removes only entries whose window is over.              *)
C29_SweepInvisible ==
    [][/\ ghost'.agree
       /\ \A ip \in DOMAIN ipMap \ DOMAIN ipMap' : clock > ipMap[ip].resetTime]_vars

(* a request was decided whose entry a sweep had removed *)
C29_Witness ==
    /\ sent.by = "rateLimiter"
    /\ ghost.reopened
    /\ ghost.agree

(* C30: a request answered 429 changes neither the count nor the resetTime *)
(* of its address's entry, and a request that arrives after the resetTime   *)
(* of its address's entry has passed is passed on and leaves the entry      *)
(* with count 1 and a new window.                                           *)
C30_NotLockedOut ==
    [][\A ip \in Addresses :
          rateLimiter(ip)
            => /\ sent'.status = 429 => ipMap' = ipMap
               /\ (ip \in DOMAIN ghost.unswept /\ clock > ghost.unswept[ip].resetTime)
                    => /\ sent'.status = 0
                       /\ ipMap'[ip] = [count |-> 1, resetTime |-> clock + windowMs]]_vars

(* an address that was refused is passed on again after its window *)
C30_Witness ==
    /\ sent.by = "rateLimiter" /\ sent.status = 0
    /\ ghost.renewed /\ ghost.readmitted
    /\ ipMap[sent.ip].count = 1

(* C22: every failure response of a middleware or handler is a JSON object *)
(* with success = false and a message field.                               *)
C22_FailureEnvelope ==
    sent.status >= 400 => (sent.success = "false" /\ sent.message)

(* C24: once the requests on a record have all completed, whatever way     *)
(* their reads and saves were interleaved, the stored progress of the      *)
(* record is the progress function applied to its stored sections.         *)
C24_ProgressAfterRace ==
    (/\ pending = <<>>
     /\ resp.op \in {"update", "analyze", "inspection", "recommendations"}
     /\ resp.code = 200
     /\ resp.id \in DOMAIN evals)
        => evals[resp.id].progress = calculateProgress(evals[resp.id])

(* C25: a request with neither a valid bearer credential nor an            *)
(* x-session-id header gets NotFound from each of the six operations on    *)
(* any existing record and changes no record.                              *)
C25_NoCredentialsNoAccess ==
    [][(/\ OnExisting
        /\ resp'.who = [kind |-> "guest", id |-> Absent])
          => (resp'.code = 404 /\ evals' = evals)]_vars

(* C26: an inspection update whose inspectionType is missing or is none of *)
(* general, mechanical, paperwork leaves the record unchanged: inspection  *)
(* sections, status and progress keep their values.                        *)
C26_UnknownSectionNoChange ==
    [][(/\ OnExisting
        /\ resp'.op = "inspection"
        /\ resp'.arg \notin InspectionTypes)
          => evals' = evals]_vars

(* the request handled in this step is a recommendations generation that  *)
(* succeeded                                                                *)
Recommended ==
    Handled /\ resp'.op = "recommendations" /\ resp'.code = 200 /\ resp'.id \in DOMAIN evals'

(* C27: right after a successful recommendations generation the record has *)
(* status completed, has recommendations stored, and its progress includes *)
(* the 15 points of the recommendations section.                            *)
C27_CompletedCountsRecommendations ==
    [][Recommended
          => LET new == evals'[resp'.id]
             IN  /\ new.status = "completed"
                 /\ new.recs.present
                 /\ new.progress = calculateProgress([new EXCEPT !.recs = NoRecs]) + 15]_vars

(* C28: every recommendations result has                                   *)
(* suggestedOffer <= maxOffer <= walkAwayPrice.                             *)
C28_OfferOrdering ==
    [][Recommended
          => LET recs == evals'[resp'.id].recs
             IN  /\ recs.suggestedOffer <= recs.maxOffer
                 /\ recs.maxOffer <= recs.walkAwayPrice]_vars

====
